---- MODULE Spec2Model ----
(***************************************************************************)
(* Model of src/image_utils.py: four pure helpers over small integers      *)
(* (calculate_aspect_ratio, resize_dimensions, rgb_to_grayscale,           *)
(* is_valid_resolution).  The state is the last call made: the function,   *)
(* its arguments and its outcome (a returned value or a raised error).     *)
(*                                                                         *)
(* Python floats are IEEE-754 binary64.  They are modelled bit by bit: a   *)
(* non-negative float is a 53-bit significand (a sequence of bits, most    *)
(* significant first) with the exponent of its last bit, and every         *)
(* arithmetic operation rounds its exact result to nearest, ties to even.  *)
(***************************************************************************)
EXTENDS Integers, Sequences, FiniteSets

\* step: 0 before a call, 1 after a call returned or raised, 2 after the
\* pair returned by resize_dimensions was passed to resize_dimensions again
VARIABLES fn, args, outcome, step

vars == <<fn, args, outcome, step>>

(***************************************************************************)
(* Bounds of the model.                                                    *)
(***************************************************************************)
\* resize_dimensions and calculate_aspect_ratio arguments range over -1..MaxDim
MaxDim == 23
\* colour channels range over -1..ChanLow and 255-ChanTop..256
ChanLow == 5
ChanTop == 2
\* is_valid_resolution arguments range over -1..MaxRes
MaxRes == 3

(***************************************************************************)
(* IEEE-754 binary64 arithmetic on non-negative values.                    *)
(***************************************************************************)
\* width of the binary64 significand
MantBits == 53

Min(a, b) == IF a <= b THEN a ELSE b

Front(s) == SubSeq(s, 1, Len(s) - 1)

Zeros(n) == [i \in 1..n |-> 0]

RECURSIVE IntToBits(_)
IntToBits(n) == IF n = 0 THEN <<>> ELSE Append(IntToBits(n \div 2), n % 2)

RECURSIVE BitsToInt(_)
BitsToInt(s) == IF s = <<>> THEN 0 ELSE 2 * BitsToInt(Front(s)) + s[Len(s)]

StripZeros(s) ==
    IF \A i \in 1..Len(s) : s[i] = 0 THEN <<>>
    ELSE LET k == CHOOSE i \in 1..Len(s) : s[i] = 1 /\ \A j \in 1..(i - 1) : s[j] = 0
         IN  SubSeq(s, k, Len(s))

\* bit sequences are added and multiplied Chunk bits at a time
Chunk == 12

\* the last w bits of s as a number, and the bits before them
Low(s, w) == BitsToInt(SubSeq(s, IF Len(s) > w THEN Len(s) - w + 1 ELSE 1, Len(s)))

High(s, w) == SubSeq(s, 1, Len(s) - w)

\* v < 2^w as exactly w bits
FixedBits(v, w) == [i \in 1..w |-> (v \div 2 ^ (w - i)) % 2]

RECURSIVE AddChunks(_, _, _)
AddChunks(a, b, c) ==
    IF a = <<>> /\ b = <<>> THEN IntToBits(c)
    ELSE LET t == Low(a, Chunk) + Low(b, Chunk) + c
         IN  AddChunks(High(a, Chunk), High(b, Chunk), t \div 2 ^ Chunk)
                \o FixedBits(t % 2 ^ Chunk, Chunk)

\* a + b + c on bit sequences, c the incoming carry
AddBits(a, b, c) == StripZeros(AddChunks(a, b, c))

RECURSIVE MulChunks(_, _, _)
MulChunks(s, n, c) ==
    IF s = <<>> THEN IntToBits(c)
    ELSE LET t == Low(s, Chunk) * n + c
         IN  MulChunks(High(s, Chunk), n, t \div 2 ^ Chunk)
                \o FixedBits(t % 2 ^ Chunk, Chunk)

\* s * n + c on a bit sequence s and small integers n, c
MulBits(s, n, c) == StripZeros(MulChunks(s, n, c))

FloatZero == [m |-> <<>>, e |-> 0]

\* The float nearest to (s0 * 2^e0 + a positive amount below 2^e0 if sticky),
\* ties to even.
RoundNearestEven(s0, e0, sticky) ==
    LET s == StripZeros(s0)
        n == Len(s)
    IN  IF n = 0 THEN FloatZero
        ELSE IF n <= MantBits
        THEN [m |-> s \o Zeros(MantBits - n), e |-> e0 - (MantBits - n)]
        ELSE LET keep  == SubSeq(s, 1, MantBits)
                 guard == s[MantBits + 1]
                 rest  == sticky \/ \E i \in (MantBits + 2)..n : s[i] = 1
                 up    == guard = 1 /\ (rest \/ keep[MantBits] = 1)
                 e2    == e0 + (n - MantBits)
                 inc   == AddBits(keep, <<>>, 1)
             IN  IF ~up THEN [m |-> keep, e |-> e2]
                 ELSE IF Len(inc) > MantBits
                 THEN [m |-> SubSeq(inc, 1, MantBits), e |-> e2 + 1]
                 ELSE [m |-> inc, e |-> e2]

\* binary long division, Chunk bits at a time: the quotient bits of r / b
\* after the bits acc, until the division is exact or acc holds the
\* significand, a guard bit and more
RECURSIVE DivBits(_, _, _, _)
DivBits(r, b, acc, e) ==
    IF r = 0 \/ Len(acc) >= MantBits + 2
    THEN [bits |-> acc, e |-> e, sticky |-> r # 0]
    ELSE LET q == (r * 2 ^ Chunk) \div b
         IN  DivBits((r * 2 ^ Chunk) % b, b,
                     IF acc = <<>> THEN IntToBits(q) ELSE acc \o FixedBits(q, Chunk),
                     e - Chunk)

\* int / int for a >= 0, b > 0: the correctly rounded quotient
true_divide(a, b) ==
    LET q == DivBits(a % b, b, IntToBits(a \div b), 0)
    IN  RoundNearestEven(q.bits, q.e, q.sticky)

\* int * float (or float * int) for n >= 0: the int converts exactly
float_mul_int(n, f) == RoundNearestEven(MulBits(f.m, n, 0), f.e, FALSE)

float_add(f, g) ==
    IF f.m = <<>> THEN g
    ELSE IF g.m = <<>> THEN f
    ELSE LET e == Min(f.e, g.e)
         IN  RoundNearestEven(AddBits(f.m \o Zeros(f.e - e), g.m \o Zeros(g.e - e), 0),
                              e, FALSE)

\* int(x) for x >= 0: truncation toward zero
float_to_int(f) ==
    LET k == Len(f.m) + f.e
    IN  IF k <= 0 THEN 0
        ELSE IF f.e >= 0 THEN BitsToInt(f.m \o Zeros(f.e))
        ELSE BitsToInt(SubSeq(f.m, 1, k))

(***************************************************************************)
(* The functions of image_utils.py.  An outcome is a returned value or a   *)
(* raised ValueError.                                                      *)
(***************************************************************************)
Return(v) == [kind |-> "return", val |-> v]

Raise(name, text) == [kind |-> "ValueError", name |-> name, msg |-> text]

calculate_aspect_ratio(width, height) ==
    IF width <= 0 \/ height <= 0
    THEN Raise("", "Width and height must be positive integers")
    ELSE Return(true_divide(width, height))

\* int(x + 0.5) in place of int(x)
float_round_int(f) == float_to_int(float_add(f, true_divide(1, 2)))

\* mutant: the condition of line 42 reversed, the scale taken from the smaller side
resize_dimensions_swapped(width, height, max_size) ==
    IF width <= 0 \/ height <= 0 \/ max_size <= 0
    THEN Raise("", "All dimensions must be positive integers")
    ELSE IF width <= max_size /\ height <= max_size
    THEN Return(<<width, height>>)
    ELSE LET scale == IF width < height
                      THEN true_divide(max_size, width)
                      ELSE true_divide(max_size, height)
         IN  Return(<<float_to_int(float_mul_int(width, scale)),
                      float_to_int(float_mul_int(height, scale))>>)

\* mutant: the scaled sizes rounded to nearest instead of truncated
resize_dimensions_rounded(width, height, max_size) ==
    IF width <= 0 \/ height <= 0 \/ max_size <= 0
    THEN Raise("", "All dimensions must be positive integers")
    ELSE IF width <= max_size /\ height <= max_size
    THEN Return(<<width, height>>)
    ELSE LET scale == IF width > height
                      THEN true_divide(max_size, width)
                      ELSE true_divide(max_size, height)
         IN  Return(<<float_round_int(float_mul_int(width, scale)),
                      float_round_int(float_mul_int(height, scale))>>)

\* mutant: the early return of lines 39-40 left out
resize_dimensions_upscale(width, height, max_size) ==
    IF width <= 0 \/ height <= 0 \/ max_size <= 0
    THEN Raise("", "All dimensions must be positive integers")
    ELSE LET scale == IF width > height
                      THEN true_divide(max_size, width)
                      ELSE true_divide(max_size, height)
         IN  Return(<<float_to_int(float_mul_int(width, scale)),
                      float_to_int(float_mul_int(height, scale))>>)

\* mutant: max_size < 0 in place of max_size <= 0 on line 36
resize_dimensions_zero_max(width, height, max_size) ==
    IF width <= 0 \/ height <= 0 \/ max_size < 0
    THEN Raise("", "All dimensions must be positive integers")
    ELSE IF width <= max_size /\ height <= max_size
    THEN Return(<<width, height>>)
    ELSE LET scale == IF width > height
                      THEN true_divide(max_size, width)
                      ELSE true_divide(max_size, height)
         IN  Return(<<float_to_int(float_mul_int(width, scale)),
                      float_to_int(float_mul_int(height, scale))>>)

resize_dimensions(width, height, max_size) ==
    IF width <= 0 \/ height <= 0 \/ max_size <= 0
    THEN Raise("", "All dimensions must be positive integers")
    ELSE IF width <= max_size /\ height <= max_size
    THEN Return(<<width, height>>)
    ELSE LET scale == IF width > height
                      THEN true_divide(max_size, width)
                      ELSE true_divide(max_size, height)
         IN  Return(<<float_to_int(float_mul_int(width, scale)),
                      float_to_int(float_mul_int(height, scale))>>)

\* the literals 0.21, 0.72, 0.07: the floats nearest to the decimal values
WeightR == true_divide(21, 100)
WeightG == true_divide(72, 100)
WeightB == true_divide(7, 100)

ChannelNames == <<"r", "g", "b">>

InRange(val) == 0 <= val /\ val <= 255

\* 0.21 * r + 0.72 * g + 0.07 * b, evaluated left to right
Luminosity(r, g, b) ==
    float_add(float_add(float_mul_int(r, WeightR), float_mul_int(g, WeightG)),
              float_mul_int(b, WeightB))

\* the channels that fail the range test of line 65, by position
OutOfRange(r, g, b) == {i \in 1..3 : ~InRange(<<r, g, b>>[i])}

\* mutant: the weighted sum rounded to nearest instead of truncated
rgb_to_grayscale_rounded(r, g, b) ==
    LET bad == OutOfRange(r, g, b)
    IN  IF bad # {}
        THEN Raise(ChannelNames[CHOOSE i \in bad : \A j \in bad : i <= j],
                   "must be between 0 and 255")
        ELSE Return(float_round_int(Luminosity(r, g, b)))

\* mutant: the weights of r and g exchanged
rgb_to_grayscale_swapped(r, g, b) ==
    LET bad == OutOfRange(r, g, b)
    IN  IF bad # {}
        THEN Raise(ChannelNames[CHOOSE i \in bad : \A j \in bad : i <= j],
                   "must be between 0 and 255")
        ELSE Return(float_to_int(Luminosity(g, r, b)))

\* mutant: the loop runs to its end and reports the last violation
rgb_to_grayscale_lastbad(r, g, b) ==
    LET bad == OutOfRange(r, g, b)
    IN  IF bad # {}
        THEN Raise(ChannelNames[CHOOSE i \in bad : \A j \in bad : i >= j],
                   "must be between 0 and 255")
        ELSE Return(float_to_int(Luminosity(r, g, b)))

\* the loop of lines 64-66 raises at the first channel out of range
rgb_to_grayscale(r, g, b) ==
    LET bad == OutOfRange(r, g, b)
    IN  IF bad # {}
        THEN Raise(ChannelNames[CHOOSE i \in bad : \A j \in bad : i <= j],
                   "must be between 0 and 255")
        ELSE Return(float_to_int(Luminosity(r, g, b)))

DefaultMinWidth == 1
DefaultMinHeight == 1

\* mutant: > in place of >=
is_valid_resolution_strict(width, height, min_width, min_height) ==
    Return(width > min_width /\ height > min_height)

is_valid_resolution(width, height, min_width, min_height) ==
    Return(width >= min_width /\ height >= min_height)

(***************************************************************************)
(* The calls a client makes.                                               *)
(***************************************************************************)
Dims == -1..MaxDim

Channels == (-1..ChanLow) \cup ((255 - ChanTop)..256)

Resolutions == -1..MaxRes

Init ==
    /\ fn = "none"
    /\ args = <<>>
    /\ outcome = [kind |-> "none"]
    /\ step = 0

CallAspectRatio ==
    /\ step = 0
    /\ \E width, height \in Dims :
          /\ fn' = "calculate_aspect_ratio"
          /\ args' = <<width, height>>
          /\ outcome' = calculate_aspect_ratio(width, height)
    /\ step' = 1

CallResize ==
    /\ step = 0
    /\ \E width, height, max_size \in Dims :
          /\ fn' = "resize_dimensions"
          /\ args' = <<width, height, max_size>>
          /\ outcome' = resize_dimensions(width, height, max_size)
    /\ step' = 1

\* the returned pair is resized again with the same max_size
CallResizeAgain ==
    /\ step = 1
    /\ fn = "resize_dimensions"
    /\ outcome.kind = "return"
    /\ fn' = fn
    /\ args' = <<outcome.val[1], outcome.val[2], args[3]>>
    /\ outcome' = resize_dimensions(outcome.val[1], outcome.val[2], args[3])
    /\ step' = 2

CallGrayscale ==
    /\ step = 0
    /\ \E r, g, b \in Channels :
          /\ fn' = "rgb_to_grayscale"
          /\ args' = <<r, g, b>>
          /\ outcome' = rgb_to_grayscale(r, g, b)
    /\ step' = 1

CallIsValid ==
    /\ step = 0
    /\ \E width, height, min_width, min_height \in Resolutions :
          /\ fn' = "is_valid_resolution"
          /\ args' = <<width, height, min_width, min_height>>
          /\ outcome' = is_valid_resolution(width, height, min_width, min_height)
    /\ step' = 1

\* min_width and min_height left to their defaults
CallIsValidDefault ==
    /\ step = 0
    /\ \E width, height \in Resolutions :
          /\ fn' = "is_valid_resolution"
          /\ args' = <<width, height>>
          /\ outcome' = is_valid_resolution(width, height, DefaultMinWidth, DefaultMinHeight)
    /\ step' = 1

\* the caller drops the result and is ready for the next call
Done ==
    /\ step > 0
    /\ fn' = "none"
    /\ args' = <<>>
    /\ outcome' = [kind |-> "none"]
    /\ step' = 0

Next ==
    \/ CallAspectRatio
    \/ CallResize
    \/ CallResizeAgain
    \/ CallGrayscale
    \/ CallIsValid
    \/ CallIsValidDefault
    \/ Done

Spec == Init /\ [][Next]_vars

TypeOK ==
    /\ step \in 0..2
    /\ outcome.kind \in {"none", "return", "ValueError"}


(***************************************************************************)
(* Properties.                                                             *)
(***************************************************************************)
Returned(f) == fn = f /\ outcome.kind = "return"

Max(a, b) == IF a >= b THEN a ELSE b

\* the call scaled its arguments: they are valid and one side exceeds max_size
Scaled ==
    /\ Returned("resize_dimensions")
    /\ args[1] > args[3] \/ args[2] > args[3]

\* C1: when width or height exceeds max_size, the larger returned component
\* is max_size or max_size - 1 and the smaller one is at most max_size.
C1_FitsMaxSize ==
    Scaled =>
        /\ Max(outcome.val[1], outcome.val[2]) \in {args[3], args[3] - 1}
        /\ Min(outcome.val[1], outcome.val[2]) <= args[3]

\* a call whose larger side came out one below max_size
C1_Witness ==
    /\ Scaled
    /\ args = <<1, 22, 15>>
    /\ outcome.val = <<0, 14>>

\* C2: on valid input both components returned by resize_dimensions are
\* strictly greater than zero.
C2_PositivePair ==
    Returned("resize_dimensions") => outcome.val[1] > 0 /\ outcome.val[2] > 0

\* the exact quotient floor(x * max_size / L), L the larger of width and height
ExactScaled(x) == (x * args[3]) \div Max(args[1], args[2])

IsExactMultiple(x) == (x * args[3]) % Max(args[1], args[2]) = 0

\* C3 (as stated): when width or height exceeds max_size the result is exactly
\* (floor(width * max_size / L), floor(height * max_size / L)), and a square
\* input returns (max_size, max_size).
C3_ExactFloor ==
    Scaled =>
        /\ outcome.val = <<ExactScaled(args[1]), ExactScaled(args[2])>>
        /\ args[1] = args[2] => outcome.val = <<args[3], args[3]>>

\* C3 (amended): each returned component is floor(x * max_size / L), except
\* that it may be one less when x * max_size / L is a whole number; a square
\* input returns (max_size, max_size) or (max_size - 1, max_size - 1).
C3_FloorOrOneLess ==
    Scaled =>
        /\ \A i \in 1..2 :
              IF IsExactMultiple(args[i])
              THEN outcome.val[i] \in {ExactScaled(args[i]), ExactScaled(args[i]) - 1}
              ELSE outcome.val[i] = ExactScaled(args[i])
        /\ args[1] = args[2] =>
              \/ outcome.val = <<args[3], args[3]>>
              \/ outcome.val = <<args[3] - 1, args[3] - 1>>

\* a square input that came out one below max_size on both sides
C3_Witness ==
    /\ Scaled
    /\ args = <<22, 22, 15>>
    /\ outcome.val = <<14, 14>>

\* C4: with width <= max_size and height <= max_size the arguments are
\* returned unchanged.
C4_NoUpscale ==
    (/\ fn = "resize_dimensions"
     /\ \A i \in 1..3 : args[i] > 0
     /\ args[1] <= args[3] /\ args[2] <= args[3])
    => outcome = Return(<<args[1], args[2]>>)

\* a first call with both sides strictly below max_size
C4_Witness ==
    /\ step = 1
    /\ Returned("resize_dimensions")
    /\ args = <<2, 3, 5>>
    /\ outcome.val = <<2, 3>>

\* C5: for channels in 0..255 the result is in 0..254; white gives 254 and
\* black gives 0.
C5_GrayRange ==
    Returned("rgb_to_grayscale") =>
        /\ outcome.val \in 0..254
        /\ args = <<255, 255, 255>> => outcome.val = 254
        /\ args = <<0, 0, 0>> => outcome.val = 0

C5_Witness ==
    /\ Returned("rgb_to_grayscale")
    /\ args = <<255, 255, 255>>
    /\ outcome.val = 254

\* 100 times the exact weighted sum 0.21*r + 0.72*g + 0.07*b
WeightedSum100 == 21 * args[1] + 72 * args[2] + 7 * args[3]

\* C6 (as stated): the result is floor(0.21*r + 0.72*g + 0.07*b).
C6_ExactFloor ==
    Returned("rgb_to_grayscale") => outcome.val = WeightedSum100 \div 100

\* C6 (amended): the result is floor(0.21*r + 0.72*g + 0.07*b), except that
\* it may be one less when the weighted sum is a whole number; it is never
\* rounded up; (255,0,0) gives 53 and (0,255,0) gives 183.
C6_FloorOrOneLess ==
    Returned("rgb_to_grayscale") =>
        /\ IF WeightedSum100 % 100 = 0
           THEN outcome.val \in {WeightedSum100 \div 100, WeightedSum100 \div 100 - 1}
           ELSE outcome.val = WeightedSum100 \div 100
        /\ args = <<255, 0, 0>> => outcome.val = 53
        /\ args = <<0, 255, 0>> => outcome.val = 183

\* a whole weighted sum (5.0) that came out one less
C6_Witness ==
    /\ Returned("rgb_to_grayscale")
    /\ args = <<5, 5, 5>>
    /\ outcome.val = 4

\* the precondition of the function called, on the arguments passed
Precondition ==
    CASE fn = "calculate_aspect_ratio" -> args[1] > 0 /\ args[2] > 0
      [] fn = "resize_dimensions" -> args[1] > 0 /\ args[2] > 0 /\ args[3] > 0
      [] fn = "rgb_to_grayscale" -> \A i \in 1..3 : args[i] \in 0..255
      [] OTHER -> TRUE

\* C7: calculate_aspect_ratio, resize_dimensions and rgb_to_grayscale raise
\* ValueError exactly when the precondition is violated, and then nothing has
\* been computed; otherwise they return a value.
C7_ErrorIffInvalid ==
    fn \in {"calculate_aspect_ratio", "resize_dimensions", "rgb_to_grayscale"} =>
        /\ outcome.kind = "ValueError" <=> ~Precondition
        /\ outcome.kind = "return" <=> Precondition
        /\ outcome.kind = "ValueError" => DOMAIN outcome = {"kind", "name", "msg"}

\* max_size alone violates the precondition
C7_Witness ==
    /\ fn = "resize_dimensions"
    /\ args = <<3, 2, 0>>
    /\ outcome.kind = "ValueError"

\* C8: the error of rgb_to_grayscale names the first channel out of range in
\* the order r, g, b.
C8_FirstViolation ==
    (fn = "rgb_to_grayscale" /\ outcome.kind = "ValueError") =>
        outcome.name = IF ~InRange(args[1]) THEN "r"
                       ELSE IF ~InRange(args[2]) THEN "g"
                       ELSE "b"

\* g and b are both out of range and g is named
C8_Witness ==
    /\ fn = "rgb_to_grayscale"
    /\ args = <<0, 256, -1>>
    /\ outcome.kind = "ValueError"
    /\ outcome.name = "g"

\* C9: is_valid_resolution always returns, and returns TRUE exactly when
\* width >= min_width and height >= min_height; with the default minimums it
\* returns TRUE exactly on the inputs calculate_aspect_ratio accepts.
C9_ValidResolution ==
    fn = "is_valid_resolution" =>
        /\ outcome.kind = "return"
        /\ Len(args) = 4 =>
              (outcome.val <=> (args[1] >= args[3] /\ args[2] >= args[4]))
        /\ Len(args) = 2 =>
              /\ outcome.val <=> (args[1] >= 1 /\ args[2] >= 1)
              /\ outcome.val <=>
                    calculate_aspect_ratio(args[1], args[2]).kind = "return"

\* a default call on a zero width and a negative height is answered FALSE
C9_Witness ==
    /\ fn = "is_valid_resolution"
    /\ args = <<0, -1>>
    /\ outcome = Return(FALSE)

\* C10: passing the pair returned by resize_dimensions to resize_dimensions
\* again with the same max_size returns that pair unchanged.
C10_Idempotent ==
    (step = 2 /\ fn = "resize_dimensions") => outcome = Return(<<args[1], args[2]>>)

====
